---- MODULE Spec2Model ----
(***************************************************************************)
(* Model of app.js: the clipboard-to-file-input bridge (paste handler and  *)
(* showPasteSuccess) and the preview request orchestrator (click handler   *)
(* of previewBtn with its then/catch continuations).                       *)
(*                                                                         *)
(* The browser is single threaded: every handler runs to completion, so    *)
(* each handler (or promise continuation) is one atomic action.            *)
(***************************************************************************)
EXTENDS Naturals, Sequences, FiniteSets

\* ---------------------------------------------------------------- bounds
\* longest clipboard (number of DataTransferItems) of one paste event
MaxItems == 2
\* most banner timers (setTimeout callbacks) pending at once
MaxTimers == 2
\* most /preview requests the model lets be in flight at once
MaxInflight == 2

\* ------------------------------------------------------- JavaScript values
\* Non-string JavaScript values, kept apart from every string the page uses.
UNDEF == "<undefined>"
JNULL == "<null>"
JTRUE == "<true>"
JFALSE == "<false>"

\* JavaScript truthiness of a value: undefined, null, false and "" are falsy.
Truthy(v) == v \notin {UNDEF, JNULL, JFALSE, ""}

\* String conversion as done by a template literal `${v}`.
ToStr(v) ==
    CASE v = UNDEF -> "undefined"
      [] v = JNULL -> "null"
      [] v = JTRUE -> "true"
      [] v = JFALSE -> "false"
      [] OTHER -> v

\* ----------------------------------------------------------- page strings
\* alert('仅支持 JPG / PNG 格式的图片')
UnsupportedMsg == "only JPG / PNG images are supported"
\* alert('请先选择或粘贴一张图片')
NoFileMsg == "select or paste an image first"
\* alert('预览失败，请稍后重试')
PreviewFailedMsg == "preview failed, try again later"
\* previewBtn.textContent = '处理中...'
BusyLabel == "processing..."
\* previewBtn.textContent = '预览证件照'
PreviewLabel == "preview ID photo"
\* the text of previewBtn in the host page, before any click
InitialLabel == PreviewLabel

\* the list without 'image/png'
allowedTypesJpegOnly == <<"image/jpeg", "image/jpg">>

\* const allowedTypes = ['image/jpeg', 'image/jpg', 'image/png'];
allowedTypes == <<"image/jpeg", "image/jpg", "image/png">>

\* a type check that accepts every type
includesAnything(arr, v) == TRUE

\* Array.prototype.includes
includes(arr, v) == \E k \in 1..Len(arr) : arr[k] = v

\* ------------------------------------------------------- clipboard inputs
\* A DataTransferItem: its kind ("file" or "string"), its type and, to tell
\* two items apart, the name of the content it carries.
FileItem(t, n) == [kind |-> "file", type |-> t, name |-> n]
StringItem(t, n) == [kind |-> "string", type |-> t, name |-> n]

ClipboardItems ==
    { FileItem("image/png", "shot.png"),
      FileItem("image/jpeg", "photo.jpg"),
      FileItem("image/gif", "anim.gif"),
      StringItem("text/plain", "text"),
      StringItem("image/svg+xml", "svg-text") }

\* the types of the universe in which the substring "image" occurs
TypesWithImage == {"image/png", "image/jpeg", "image/jpg", "image/gif", "image/svg+xml"}

\* item.type.indexOf('image') !== -1
ContainsImage(t) == t \in TypesWithImage

\* all clipboards of at most MaxItems items
Clipboards == UNION { [1..n -> ClipboardItems] : n \in 0..MaxItems }

\* the clipboards of at most one item
ShortClipboards == UNION { [1..n -> ClipboardItems] : n \in {0, 1} }

\* item.getAsFile(): a File for an item of kind "file", null otherwise;
\* NullFile stands for null
NullFile == [type |-> JNULL, name |-> JNULL]

getAsFile(item) ==
    IF item.kind = "file" THEN [type |-> item.type, name |-> item.name] ELSE NullFile

\* ------------------------------------------------------- server responses
bgColors == {"white", "blue"}
NoColor == "<none checked>"

\* the parsed JSON body of a /preview response: an object or null
Responses ==
    [ error : {UNDEF, "", "no face found"},
      success : {UNDEF, JTRUE, JFALSE},
      preview_base64 : {UNDEF, "", "QQ=="},
      preview_mime_type : {UNDEF, "image/png"} ]

NoData == [ error |-> UNDEF, success |-> UNDEF,
            preview_base64 |-> UNDEF, preview_mime_type |-> UNDEF ]

VARIABLES
    files,          \* photoInput.files, a sequence of File
    bgColor,        \* value of the checked bg_color radio, or NoColor
    btnDisabled,    \* previewBtn.disabled
    btnLabel,       \* previewBtn.textContent
    inflight,       \* the /preview requests issued and not yet settled
    previewSrc,     \* previewImage.src
    previewDisplay, \* previewArea.style.display
    banners,        \* the .paste-success-alert elements in the page, in document order
    timers,         \* banner elements whose 3 s timer is still pending
    ev              \* what the last handler run was given and what it did

vars == <<files, bgColor, btnDisabled, btnLabel, inflight,
          previewSrc, previewDisplay, banners, timers, ev>>

\* the record of one handler run
Event(op) ==
    [ op |-> op,            \* which handler ran
      items |-> <<>>,       \* paste: the clipboard items
      data |-> NoData,      \* then: the parsed response
      isNull |-> FALSE,     \* then: the parsed response was null
      alerts |-> <<>>,      \* the alert() messages raised, in order
      assigns |-> 0,        \* number of assignments to photoInput.files
      shown |-> 0,          \* number of banners appended
      prevented |-> FALSE,  \* e.preventDefault() was called
      threw |-> FALSE,      \* the handler ended by an uncaught exception
      issued |-> 0,         \* number of fetch('/preview') calls
      req |-> 0 ]           \* id of the request started or settled (0: none)

\* ------------------------------------------------------------------ Init
Init ==
    /\ files = <<>>
    /\ bgColor \in bgColors \cup {NoColor}
    /\ btnDisabled = FALSE
    /\ btnLabel = InitialLabel
    /\ inflight = {}
    /\ previewSrc = ""
    /\ previewDisplay = "none"
    /\ banners = <<>>
    /\ timers = {}
    /\ ev = Event("load")

\* ------------------------------------------------------- paste handler
Min(S) == CHOOSE x \in S : \A y \in S : x <= y

\* showPasteSuccess() without the removal of the existing banner
showPasteSuccessStacking(st) ==
    LET free == (1..MaxTimers) \ st.timers
    IN  IF free = {}
        THEN [st EXCEPT !.full = TRUE]
        ELSE [st EXCEPT !.banners = Append(st.banners, Min(free)),
                        !.timers = @ \cup {Min(free)},
                        !.ev.shown = @ + 1]

\* showPasteSuccess(), on the handler state st: remove the banner that
\* querySelector('.paste-success-alert') finds (the first in document order),
\* append a new banner element and start its timer.  st.full records that
\* the model has no element identity left for the new banner.
showPasteSuccess(st) ==
    LET kept == IF st.banners # <<>> THEN Tail(st.banners) ELSE st.banners
        free == (1..MaxTimers) \ st.timers
    IN  IF free = {}
        THEN [st EXCEPT !.full = TRUE]
        ELSE [st EXCEPT !.banners = Append(kept, Min(free)),
                        !.timers = @ \cup {Min(free)},
                        !.ev.shown = @ + 1]

RECURSIVE PasteLoopNoBreak(_, _, _)
\* the loop without the `break`: it goes on after an accepted image
PasteLoopNoBreak(items, i, st) ==
    IF i > Len(items) THEN st
    ELSE IF ContainsImage(items[i].type)
    THEN LET st1 == [st EXCEPT !.ev.prevented = TRUE]
             file == getAsFile(items[i])
         IN  IF file = NullFile
             THEN [st1 EXCEPT !.ev.threw = TRUE]
             ELSE IF ~includes(allowedTypes, file.type)
             THEN [st1 EXCEPT !.ev.alerts = Append(@, UnsupportedMsg)]
             ELSE PasteLoopNoBreak(items, i + 1,
                      showPasteSuccess([st1 EXCEPT !.files = <<file>>,
                                                   !.ev.assigns = @ + 1]))
    ELSE PasteLoopNoBreak(items, i + 1, st)

RECURSIVE PasteLoopAssignBeforeCheck(_, _, _)
\* the loop with the file input assigned before the type is validated
PasteLoopAssignBeforeCheck(items, i, st) ==
    IF i > Len(items) THEN st
    ELSE IF ContainsImage(items[i].type)
    THEN LET st1 == [st EXCEPT !.ev.prevented = TRUE]
             file == getAsFile(items[i])
         IN  IF file = NullFile
             THEN [st1 EXCEPT !.ev.threw = TRUE]
             ELSE IF ~includes(allowedTypes, file.type)
             THEN [st1 EXCEPT !.files = <<file>>,
                              !.ev.assigns = @ + 1,
                              !.ev.alerts = Append(@, UnsupportedMsg)]
             ELSE showPasteSuccess([st1 EXCEPT !.files = <<file>>,
                                               !.ev.assigns = @ + 1])
    ELSE PasteLoopAssignBeforeCheck(items, i + 1, st)

RECURSIVE PasteLoop(_, _, _)
\* for (let i = 0; i < items.length; i++) { ... }, from item i on
PasteLoop(items, i, st) ==
    IF i > Len(items) THEN st
    ELSE IF ContainsImage(items[i].type)
    THEN LET st1 == [st EXCEPT !.ev.prevented = TRUE]
             file == getAsFile(items[i])
         IN  IF file = NullFile
             THEN \* file.type on null: TypeError, the handler ends
                  [st1 EXCEPT !.ev.threw = TRUE]
             ELSE IF ~includes(allowedTypes, file.type)
             THEN \* alert(...); return
                  [st1 EXCEPT !.ev.alerts = Append(@, UnsupportedMsg)]
             ELSE \* photoInput.files = dataTransfer.files; showPasteSuccess(); break
                  showPasteSuccess([st1 EXCEPT !.files = <<file>>,
                                               !.ev.assigns = @ + 1])
    ELSE PasteLoop(items, i + 1, st)

\* the listener with e.preventDefault() called before the loop
PasteResultPreventsFirst(items) ==
    PasteLoop(items, 1, [ files |-> files, banners |-> banners, timers |-> timers,
                          ev |-> [Event("paste") EXCEPT !.items = items,
                                                        !.prevented = TRUE],
                          full |-> FALSE ])

\* the 'paste' listener of the document, run on the clipboard `items`
PasteResult(items) ==
    PasteLoop(items, 1, [ files |-> files, banners |-> banners, timers |-> timers,
                          ev |-> [Event("paste") EXCEPT !.items = items],
                          full |-> FALSE ])

Paste(items) ==
    LET st == PasteResult(items)
    IN  /\ ~st.full
        /\ files' = st.files
        /\ banners' = st.banners
        /\ timers' = st.timers
        /\ ev' = st.ev
        /\ UNCHANGED <<bgColor, btnDisabled, btnLabel, inflight, previewSrc, previewDisplay>>

\* a timer callback that removes the banner it finds in the page instead of
\* the element it was started for
BannerTimerRemovesCurrent(b) ==
    /\ b \in timers
    /\ timers' = timers \ {b}
    /\ banners' = IF banners # <<>> THEN Tail(banners) ELSE banners
    /\ ev' = Event("timer")
    /\ UNCHANGED <<files, bgColor, btnDisabled, btnLabel, inflight, previewSrc, previewDisplay>>

\* setTimeout(() => { alert.remove(); }, 3000) of banner element b
BannerTimer(b) ==
    /\ b \in timers
    /\ timers' = timers \ {b}
    /\ banners' = SelectSeq(banners, LAMBDA x : x # b)
    /\ ev' = Event("timer")
    /\ UNCHANGED <<files, bgColor, btnDisabled, btnLabel, inflight, previewSrc, previewDisplay>>

\* ------------------------------------------------ host page interactions
\* files the user can pick in the file dialog of photoInput
UserFiles == { [type |-> "image/jpeg", name |-> "disk.jpg"] }

\* the user selects a file in photoInput by hand
ChooseFile(f) ==
    /\ files' = <<f>>
    /\ ev' = Event("choose-file")
    /\ UNCHANGED <<bgColor, btnDisabled, btnLabel, inflight, previewSrc,
                   previewDisplay, banners, timers>>

\* the user checks one radio of the bg_color group
ChooseColor(c) ==
    /\ bgColor # c
    /\ bgColor' = c
    /\ ev' = Event("choose-color")
    /\ UNCHANGED <<files, btnDisabled, btnLabel, inflight, previewSrc,
                   previewDisplay, banners, timers>>

\* ------------------------------------------------- preview click handler
\* !photoInput.files || photoInput.files.length === 0
NoFileSelected == files = <<>>

\* the same branch with the `return` missing: the handler goes on to line 79
NoFileBranchFallsThrough ==
    IF bgColor = NoColor
    THEN /\ ev' = [Event("click") EXCEPT !.alerts = <<NoFileMsg>>, !.threw = TRUE]
         /\ UNCHANGED <<files, bgColor, btnDisabled, btnLabel, inflight, previewSrc,
                        previewDisplay, banners, timers>>
    ELSE LET free == (1..MaxInflight) \ { r.id : r \in inflight }
             req == [ id |-> Min(free), photo |-> NullFile, bg_color |-> bgColor,
                      prevLabel |-> btnLabel ]
         IN  /\ free # {}
             /\ btnDisabled' = TRUE
             /\ btnLabel' = BusyLabel
             /\ inflight' = inflight \cup {req}
             /\ ev' = [Event("click") EXCEPT !.alerts = <<NoFileMsg>>, !.issued = 1,
                                              !.req = req.id]
             /\ UNCHANGED <<files, bgColor, previewSrc, previewDisplay, banners, timers>>

\* alert('...'); return;
NoFileBranch ==
    /\ ev' = [Event("click") EXCEPT !.alerts = <<NoFileMsg>>]
    /\ UNCHANGED <<files, bgColor, btnDisabled, btnLabel, inflight, previewSrc,
                   previewDisplay, banners, timers>>

\* the colour read only after the loading state was set: the TypeError
\* leaves the button disabled and busy
NoColorBranchAfterLoading ==
    /\ btnDisabled' = TRUE
    /\ btnLabel' = BusyLabel
    /\ ev' = [Event("click") EXCEPT !.threw = TRUE]
    /\ UNCHANGED <<files, bgColor, inflight, previewSrc, previewDisplay, banners, timers>>

\* document.querySelector('input[name="bg_color"]:checked').value with no
\* radio checked: TypeError on null, the handler ends there
NoColorBranch ==
    /\ ev' = [Event("click") EXCEPT !.threw = TRUE]
    /\ UNCHANGED <<files, bgColor, btnDisabled, btnLabel, inflight, previewSrc,
                   previewDisplay, banners, timers>>

\* the loading state without the `disabled = true`
StartLoadingLabelOnly ==
    /\ btnDisabled' = btnDisabled
    /\ btnLabel' = BusyLabel

\* previewBtn.disabled = true; previewBtn.textContent = '处理中...'
StartLoading ==
    /\ btnDisabled' = TRUE
    /\ btnLabel' = BusyLabel

\* the request built with a fixed colour instead of the checked one
IssueBranchFixedColor ==
    LET free == (1..MaxInflight) \ { r.id : r \in inflight }
        req == [ id |-> Min(free), photo |-> files[1], bg_color |-> "white",
                 prevLabel |-> btnLabel ]
    IN  /\ free # {}
        /\ StartLoading
        /\ inflight' = inflight \cup {req}
        /\ ev' = [Event("click") EXCEPT !.issued = 1, !.req = req.id]
        /\ UNCHANGED <<files, bgColor, previewSrc, previewDisplay, banners, timers>>

\* formData with photo and bg_color, the loading state, fetch('/preview').
\* A request keeps its payload and, as history, the label the click replaced.
IssueBranch ==
    LET free == (1..MaxInflight) \ { r.id : r \in inflight }
        req == [ id |-> Min(free), photo |-> files[1], bg_color |-> bgColor,
                 prevLabel |-> btnLabel ]
    IN  /\ free # {}
        /\ StartLoading
        /\ inflight' = inflight \cup {req}
        /\ ev' = [Event("click") EXCEPT !.issued = 1, !.req = req.id]
        /\ UNCHANGED <<files, bgColor, previewSrc, previewDisplay, banners, timers>>

\* the 'click' listener of previewBtn; a disabled button receives no click
Click ==
    /\ ~btnDisabled
    /\ IF NoFileSelected THEN NoFileBranch
       ELSE IF bgColor = NoColor THEN NoColorBranch
       ELSE IssueBranch

\* ------------------------------------------------ promise continuations
\* the catch callback without the restoring of the label
CatchRestoreEnableOnly ==
    /\ btnDisabled' = FALSE
    /\ btnLabel' = btnLabel

\* .catch: previewBtn.disabled = false; previewBtn.textContent = '预览证件照'
CatchRestore ==
    /\ btnDisabled' = FALSE
    /\ btnLabel' = PreviewLabel

\* .catch(error => { ... }) for request r
CatchHandler(r, op) ==
    /\ CatchRestore
    /\ inflight' = inflight \ {r}
    /\ ev' = [Event(op) EXCEPT !.alerts = <<PreviewFailedMsg>>, !.req = r.id]
    /\ UNCHANGED <<files, bgColor, previewSrc, previewDisplay, banners, timers>>

\* fetch() rejects: network failure
FetchRejects(r) == CatchHandler(r, "fetch-rejected")

\* fetch() resolves and response.json() rejects: the body is not JSON.
\* (response => response.json() touches nothing of the page, so the arrival
\* of the response is no step of its own.)
JsonRejects(r) == CatchHandler(r, "json-rejected")

\* the then callback without the `disabled = false`
ThenRestoreLabelOnly ==
    /\ btnDisabled' = btnDisabled
    /\ btnLabel' = PreviewLabel

\* .then: previewBtn.disabled = false; previewBtn.textContent = '预览证件照'
ThenRestore ==
    /\ btnDisabled' = FALSE
    /\ btnLabel' = PreviewLabel

\* the error test taken for a test of the success flag
HasErrorUnlessSuccess(data) == Truthy(data.error) /\ ~Truthy(data.success)

\* if (data.error)
HasError(data) == Truthy(data.error)

\* the preview test without the success flag
HasPreviewDataOnly(data) == Truthy(data.preview_base64)

\* if (data.success && data.preview_base64)
HasPreview(data) == Truthy(data.success) /\ Truthy(data.preview_base64)

\* the data URI with mime type and data in each other's place
DataUriSwapped(data) ==
    "data:" \o ToStr(data.preview_base64) \o ";base64," \o ToStr(data.preview_mime_type)

\* `data:${data.preview_mime_type};base64,${data.preview_base64}`
DataUri(data) ==
    "data:" \o ToStr(data.preview_mime_type) \o ";base64," \o ToStr(data.preview_base64)

\* response.json() resolves to null: data.error throws in the then callback
\* after the button was restored, and the catch callback runs
ThenNull(r) ==
    /\ ThenRestore
    /\ inflight' = inflight \ {r}
    /\ ev' = [Event("then") EXCEPT !.isNull = TRUE, !.alerts = <<PreviewFailedMsg>>,
                                   !.req = r.id]
    /\ UNCHANGED <<files, bgColor, previewSrc, previewDisplay, banners, timers>>

\* .then(data => { ... }) for request r, on the parsed object `data`
ThenData(r, data) ==
    /\ ThenRestore
    /\ inflight' = inflight \ {r}
    /\ IF HasError(data)
       THEN /\ ev' = [Event("then") EXCEPT !.data = data, !.alerts = <<data.error>>,
                                           !.req = r.id]
            /\ UNCHANGED <<previewSrc, previewDisplay>>
       ELSE IF HasPreview(data)
       THEN /\ previewSrc' = DataUri(data)
            /\ previewDisplay' = "block"
            /\ ev' = [Event("then") EXCEPT !.data = data, !.req = r.id]
       ELSE /\ ev' = [Event("then") EXCEPT !.data = data, !.req = r.id]
            /\ UNCHANGED <<previewSrc, previewDisplay>>
    /\ UNCHANGED <<files, bgColor, banners, timers>>

\* ------------------------------------------------------- specification
\* one step of the promise chain of some request in flight
Settle ==
    \E r \in inflight :
        \/ FetchRejects(r)
        \/ JsonRejects(r)
        \/ ThenNull(r)
        \/ \E data \in Responses : ThenData(r, data)

\* All handlers interleaved.  What a paste does to the page is decided by the
\* first image item of its clipboard (PasteSpec below checks the handler on
\* every clipboard), so here the clipboards of at most one item stand for all.
Next ==
    \/ \E items \in ShortClipboards : Paste(items)
    \/ \E b \in timers : BannerTimer(b)
    \/ \E f \in UserFiles : ChooseFile(f)
    \/ \E c \in bgColors : ChooseColor(c)
    \/ Click
    \/ \E r \in inflight : FetchRejects(r)
    \/ \E r \in inflight : JsonRejects(r)
    \/ \E r \in inflight : ThenNull(r)
    \/ \E r \in inflight : \E data \in Responses : ThenData(r, data)

Spec == Init /\ [][Next]_vars

\* The clipboard bridge alone, on every clipboard of at most MaxItems items.
NextPaste ==
    \/ \E items \in Clipboards : Paste(items)
    \/ \E b \in timers : BannerTimer(b)
    \/ \E f \in UserFiles : ChooseFile(f)

PasteSpec == Init /\ [][NextPaste]_vars

\* every timer started by setTimeout fires
FairPasteSpec == PasteSpec /\ \A b \in 1..MaxTimers : WF_vars(BannerTimer(b))

\* every issued request settles: each step of its promise chain is taken
FairSpec == Spec /\ WF_vars(Settle)

\* ===================================================================== claims
SettleOps == {"then", "fetch-rejected", "json-rejected"}
Pending == inflight # {}
Idle == inflight = {} /\ ~btnDisabled

\* C1: whenever a preview request completes (parsed response, response with
\* an error, network or parse failure) the button is enabled again and its
\* label is the text it had before the click; and, every issued request
\* settling (FairSpec), every Pending state is followed by an Idle one.
C1_RestoredAfterSettle ==
    /\ [][ \A r \in inflight :
              r \notin inflight' => (~btnDisabled' /\ btnLabel' = r.prevLabel) ]_vars
    /\ (Pending ~> Idle)

C1_Witness ==
    /\ ev.op = "json-rejected"
    /\ ~btnDisabled
    /\ btnLabel = InitialLabel
    /\ inflight = {}

\* C2: at most one /preview request is in flight at any time, and while one
\* is in flight the button is disabled, so that no click can start another.
C2_OneRequestInFlight ==
    /\ Cardinality(inflight) <= 1
    /\ (inflight # {} => btnDisabled)

\* a paste was handled while a request was pending
C2_Witness ==
    /\ Cardinality(inflight) = 1
    /\ ev.op = "paste"
    /\ ev.assigns = 1

\* C3: a click with no file in photoInput issues no request and raises the
\* alert; the button stays enabled, its label, the preview image and the
\* preview container are as before.
C3_ClickWithoutFile ==
    [][ (ev'.op = "click" /\ files = <<>>) =>
            /\ ev'.issued = 0
            /\ inflight' = inflight
            /\ ev'.alerts = <<NoFileMsg>>
            /\ ~btnDisabled'
            /\ btnLabel' = btnLabel
            /\ previewSrc' = previewSrc
            /\ previewDisplay' = previewDisplay ]_vars

C3_Witness ==
    /\ ev.op = "click"
    /\ files = <<>>
    /\ ev.alerts = <<NoFileMsg>>
    /\ ev.issued = 0

\* index of the first clipboard item whose type contains "image", 0 if none
FirstImage(items) ==
    LET S == { i \in 1..Len(items) : ContainsImage(items[i].type) }
    IN  IF S = {} THEN 0 ELSE CHOOSE i \in S : \A j \in S : i <= j

\* a PNG or JPEG image on the clipboard
IsPngOrJpeg(item) == item.kind = "file" /\ item.type \in {"image/png", "image/jpeg"}

\* an image on the clipboard whose MIME type is none of jpeg, jpg, png
IsOtherImage(item) ==
    /\ item.kind = "file"
    /\ ContainsImage(item.type)
    /\ item.type \notin {"image/jpeg", "image/jpg", "image/png"}

\* C4 as stated: after a paste with a PNG or JPEG image item at any position
\* of the clipboard, photoInput holds exactly one file, a PNG or JPEG image
\* item of that clipboard.
C4_AnyPositionAccepted ==
    (ev.op = "paste" /\ \E i \in 1..Len(ev.items) : IsPngOrJpeg(ev.items[i])) =>
        \E i \in 1..Len(ev.items) :
            /\ IsPngOrJpeg(ev.items[i])
            /\ files = <<[type |-> ev.items[i].type, name |-> ev.items[i].name]>>

\* C4 (amended): after a paste whose first item with "image" in its type is
\* a PNG or JPEG image, photoInput holds exactly one file, that item.
C4_FirstImageAccepted ==
    ev.op = "paste" =>
        LET k == FirstImage(ev.items)
        IN  (k # 0 /\ IsPngOrJpeg(ev.items[k])) =>
                /\ Len(files) = 1
                /\ files[1] = [type |-> ev.items[k].type, name |-> ev.items[k].name]

\* the accepted image came second on the clipboard, after a non-image item
C4_Witness ==
    /\ ev.op = "paste"
    /\ Len(ev.items) = 2
    /\ FirstImage(ev.items) = 2
    /\ IsPngOrJpeg(ev.items[2])
    /\ files = <<[type |-> "image/png", name |-> "shot.png"]>>

\* C5 as stated: a paste with an image item of another type at any position
\* leaves photoInput unchanged, raises the alert and shows no banner.
C5_AnyPositionRejected ==
    [][ (ev'.op = "paste" /\ \E i \in 1..Len(ev'.items) : IsOtherImage(ev'.items[i])) =>
            /\ files' = files
            /\ ev'.alerts = <<UnsupportedMsg>>
            /\ ev'.shown = 0 ]_vars

\* C5 (amended): a paste whose first item with "image" in its type is an
\* image file of another type than jpeg, jpg, png leaves photoInput
\* unchanged, raises the alert once and shows no banner.
C5_FirstImageRejected ==
    [][ (/\ ev'.op = "paste"
         /\ FirstImage(ev'.items) # 0
         /\ IsOtherImage(ev'.items[FirstImage(ev'.items)])) =>
            /\ files' = files
            /\ ev'.alerts = <<UnsupportedMsg>>
            /\ ev'.shown = 0
            /\ banners' = banners ]_vars

\* a GIF after a text item was rejected while photoInput held a file
C5_Witness ==
    /\ ev.op = "paste"
    /\ Len(ev.items) = 2
    /\ FirstImage(ev.items) = 2
    /\ IsOtherImage(ev.items[2])
    /\ ev.alerts = <<UnsupportedMsg>>
    /\ files # <<>>

\* C6 as stated: a parsed response that contains an error field changes
\* neither the preview image source nor the visibility of the container,
\* whatever its success and preview_base64.
C6_ErrorFieldPresent ==
    [][ (ev'.op = "then" /\ ~ev'.isNull /\ ev'.data.error # UNDEF) =>
            /\ previewSrc' = previewSrc
            /\ previewDisplay' = previewDisplay ]_vars

\* C6 (amended): a parsed response whose error field is a non-empty string
\* changes neither the preview image source nor the visibility of the
\* container, whatever its success and preview_base64; it restores the
\* button and alerts with the error content, nothing else.
C6_ErrorFieldNonEmpty ==
    [][ (ev'.op = "then" /\ ~ev'.isNull /\ ev'.data.error \notin {UNDEF, ""}) =>
            /\ previewSrc' = previewSrc
            /\ previewDisplay' = previewDisplay
            /\ ev'.alerts = <<ev'.data.error>>
            /\ ~btnDisabled'
            /\ btnLabel' = PreviewLabel
            /\ files' = files
            /\ banners' = banners ]_vars

\* an error response that also carried success and data came in while a
\* preview was on display
C6_Witness ==
    /\ ev.op = "then"
    /\ ev.data.error = "no face found"
    /\ ev.data.success = JTRUE
    /\ ev.data.preview_base64 = "QQ=="
    /\ ev.alerts = <<"no face found">>
    /\ previewDisplay = "block"

\* "data:" + preview_mime_type + ";base64," + preview_base64 in JavaScript
ExpectedUri(data) ==
    "data:"
    \o (IF data.preview_mime_type = UNDEF THEN "undefined" ELSE data.preview_mime_type)
    \o ";base64," \o data.preview_base64

\* C7 as stated: a parsed response with no error field, success true and a
\* preview_base64 field sets the image source to the data URI and shows the
\* container.
C7_PreviewFieldPresent ==
    (/\ ev.op = "then" /\ ~ev.isNull
     /\ ev.data.error = UNDEF
     /\ ev.data.success = JTRUE
     /\ ev.data.preview_base64 # UNDEF) =>
        /\ previewSrc = ExpectedUri(ev.data)
        /\ previewDisplay = "block"

\* C7 (amended): a parsed response with no error (the field absent or
\* empty), success true and a non-empty preview_base64 sets the image source
\* to exactly "data:" + preview_mime_type + ";base64," + preview_base64 and
\* shows the container.
C7_PreviewShown ==
    (/\ ev.op = "then" /\ ~ev.isNull
     /\ ev.data.error \in {UNDEF, ""}
     /\ ev.data.success = JTRUE
     /\ ev.data.preview_base64 \notin {UNDEF, ""}) =>
        /\ previewSrc = ExpectedUri(ev.data)
        /\ previewDisplay = "block"

C7_Witness ==
    /\ ev.op = "then"
    /\ ev.data.error = UNDEF
    /\ ev.data.success = JTRUE
    /\ ev.data.preview_base64 = "QQ=="
    /\ ev.data.preview_mime_type = "image/png"
    /\ previewSrc = "data:image/png;base64,QQ=="
    /\ previewDisplay = "block"

\* C8: the button is disabled, and shows the busy label, exactly while a
\* request is issued and not settled; it becomes disabled only by a click
\* that starts a request and enabled only by the settling of a request.
C8_DisabledIffPending ==
    /\ [](btnDisabled <=> inflight # {})
    /\ []((btnLabel = BusyLabel) <=> inflight # {})
    /\ [][ /\ (~btnDisabled /\ btnDisabled') => (ev'.op = "click" /\ ev'.issued = 1)
           /\ (btnDisabled /\ ~btnDisabled') => ev'.op \in SettleOps ]_vars

C8_Witness ==
    /\ btnDisabled
    /\ btnLabel = BusyLabel
    /\ inflight # {}
    /\ ev.op = "click"

\* C9: at most one paste-success banner is in the page at any time.
C9_OneBanner == Len(banners) <= 1

\* a banner was shown while the timer of an earlier one was pending
C9_Witness ==
    /\ ev.op = "paste"
    /\ ev.shown = 1
    /\ Cardinality(timers) = 2
    /\ Len(banners) = 1

\* C10: a paste assigns photoInput.files at most once and alerts at most
\* once, and does exactly what the same paste would do with the clipboard
\* cut after its first item with "image" in its type.
C10_OnlyFirstImage ==
    [][ ev'.op = "paste" =>
            LET k == FirstImage(ev'.items)
                cut == IF k = 0 THEN ev'.items ELSE SubSeq(ev'.items, 1, k)
            IN  /\ ev'.assigns <= 1
                /\ Len(ev'.alerts) <= 1
                /\ PasteResult(cut) =
                       [ files |-> files', banners |-> banners', timers |-> timers',
                         ev |-> [ev' EXCEPT !.items = cut], full |-> FALSE ] ]_vars

\* two accepted images on one clipboard: the first one was taken
C10_Witness ==
    /\ ev.op = "paste"
    /\ Len(ev.items) = 2
    /\ IsPngOrJpeg(ev.items[1])
    /\ IsPngOrJpeg(ev.items[2])
    /\ ev.items[1] # ev.items[2]
    /\ ev.assigns = 1
    /\ files = <<[type |-> ev.items[1].type, name |-> ev.items[1].name]>>

\* the paste is accepted: its first item with "image" in its type is a file
\* of type image/jpeg, image/jpg or image/png
IsAcceptedPaste(items) ==
    LET k == FirstImage(items)
    IN  /\ k # 0
        /\ items[k].kind = "file"
        /\ items[k].type \in {"image/jpeg", "image/jpg", "image/png"}

\* C11: photoInput holds at most one file; an accepted paste leaves in it
\* exactly its image, and every other paste (rejected, or without an image)
\* leaves it as it was, so that a pasted file is always the image of the most
\* recent accepted paste.
C11_AtMostOneFile ==
    /\ [](Len(files) <= 1)
    /\ [][ ev'.op = "paste" =>
              IF IsAcceptedPaste(ev'.items)
              THEN LET it == ev'.items[FirstImage(ev'.items)]
                   IN  files' = <<[type |-> it.type, name |-> it.name]>>
              ELSE files' = files ]_vars

\* a paste without any image left the file of an earlier paste in place
C11_Witness ==
    /\ ev.op = "paste"
    /\ Len(ev.items) = 2
    /\ FirstImage(ev.items) = 0
    /\ files = <<[type |-> "image/jpeg", name |-> "photo.jpg"]>>

\* the banner elements in the page
Shown == { banners[i] : i \in 1..Len(banners) }

\* C12: every banner shown is removed in the end (every timer firing,
\* FairPasteSpec); a banner leaves the page only when its own timer fires or
\* when a later accepted paste replaces it, so the timer of a replaced banner
\* removes no newer banner.
C12_BannerRemovedByOwnTimer ==
    /\ \A b \in 1..MaxTimers : (b \in Shown) ~> (b \notin Shown)
    /\ [][ \A b \in Shown :
              b \notin { banners'[i] : i \in 1..Len(banners') } =>
                  \/ ev'.op = "timer" /\ timers \ timers' = {b}
                  \/ ev'.op = "paste" /\ ev'.shown = 1 ]_vars

\* the timer of a replaced banner fired and the newer banner is still shown
C12_Witness ==
    /\ ev.op = "timer"
    /\ Len(banners) = 1
    /\ timers = Shown

\* C13: a paste whose clipboard has no item with "image" in its type changes
\* nothing: photoInput, the banners and their timers are as before, no alert
\* fires, no banner is shown; and preventDefault is called exactly when some
\* item's type contains "image".
C13_NoImageNoEffect ==
    [][ ev'.op = "paste" =>
            /\ ev'.prevented <=> (\E i \in 1..Len(ev'.items) : ContainsImage(ev'.items[i].type))
            /\ (\A i \in 1..Len(ev'.items) : ~ContainsImage(ev'.items[i].type)) =>
                   /\ files' = files
                   /\ banners' = banners
                   /\ timers' = timers
                   /\ ev'.alerts = <<>>
                   /\ ev'.shown = 0
                   /\ ev'.assigns = 0
                   /\ ~ev'.threw ]_vars

\* a paste of text alone, with a banner on display
C13_Witness ==
    /\ ev.op = "paste"
    /\ Len(ev.items) = 1
    /\ ev.items[1].type = "text/plain"
    /\ ~ev.prevented
    /\ Len(banners) = 1

\* C14: a click with a file selected and no bg_color radio checked ends (by
\* the TypeError) before anything is changed: no request is issued, the
\* button stays enabled with the label it had, no alert fires.
C14_ClickWithoutColor ==
    [][ (ev'.op = "click" /\ files # <<>> /\ bgColor = NoColor) =>
            /\ ev'.threw
            /\ ev'.issued = 0
            /\ inflight' = inflight
            /\ ~btnDisabled'
            /\ btnLabel' = btnLabel
            /\ ev'.alerts = <<>>
            /\ previewSrc' = previewSrc
            /\ previewDisplay' = previewDisplay
            /\ files' = files ]_vars

C14_Witness ==
    /\ ev.op = "click"
    /\ ev.threw
    /\ files # <<>>
    /\ bgColor = NoColor
    /\ ~btnDisabled
    /\ btnLabel = PreviewLabel

\* C15: a request carries the file and the colour present at the click; a
\* paste (like a file or colour chosen by hand, or a banner timer) handled
\* while it is pending changes neither the requests in flight nor the
\* button's disabled state and label; and the paste handler does run while a
\* request is pending (C15_Witness).
C15_PasteAndRequestIndependent ==
    [][ /\ (ev'.op = "click" /\ ev'.issued = 1) =>
               \E r \in inflight' :
                   /\ r \notin inflight
                   /\ inflight' = inflight \cup {r}
                   /\ r.photo = files[1]
                   /\ r.bg_color = bgColor
        /\ ev'.op \in {"paste", "timer", "choose-file", "choose-color"} =>
               /\ inflight' = inflight
               /\ btnDisabled' = btnDisabled
               /\ btnLabel' = btnLabel
        /\ \A r \in inflight' : r \in inflight \/ ev'.op = "click" ]_vars

\* a paste replaced the file while the request for the earlier file is pending
C15_Witness ==
    /\ ev.op = "paste"
    /\ ev.assigns = 1
    /\ btnDisabled
    /\ btnLabel = BusyLabel
    /\ \E r \in inflight : files # <<r.photo>>

\* C16: a parsed response object with no error (the field absent or empty)
\* that lacks a true success flag or lacks preview_base64 (absent or empty)
\* is handled silently: the button is restored, no alert fires, the preview
\* image source and the visibility of the container are as before.
C16_SilentWithoutPreview ==
    [][ (/\ ev'.op = "then" /\ ~ev'.isNull
         /\ ev'.data.error \in {UNDEF, ""}
         /\ \/ ev'.data.success # JTRUE
            \/ ev'.data.preview_base64 \in {UNDEF, ""}) =>
            /\ ~btnDisabled'
            /\ btnLabel' = PreviewLabel
            /\ ev'.alerts = <<>>
            /\ previewSrc' = previewSrc
            /\ previewDisplay' = previewDisplay ]_vars

\* a response with data but success false, the preview still hidden
C16_Witness ==
    /\ ev.op = "then"
    /\ ev.data.error = UNDEF
    /\ ev.data.success = JFALSE
    /\ ev.data.preview_base64 = "QQ=="
    /\ ev.alerts = <<>>
    /\ ~btnDisabled
    /\ previewDisplay = "none"

====
